---- MODULE Spec2Model ----
(***************************************************************************)
(* Governance helpers of the data solutions framework: the Lake Formation  *)
(* helpers (registerS3Location, grantLfAdminRole, makeCdkLfAdmin,          *)
(* removeIamAllowedPrincipal, grantDataLakeLocation) and the environment   *)
(* authorizer setup (authorizerEnvironmentWorkflowSetup).                  *)
(*                                                                         *)
(* A helper is a function from the construct tree (the resources declared  *)
(* so far and their dependency edges) to a larger construct tree and a     *)
(* return value.  The synthesized tree is then deployed: resources are     *)
(* applied one at a time, a resource only after everything it depends on.  *)
(*                                                                         *)
(* Strings that the code concatenates (construct ids, ARNs) are sequences  *)
(* of tokens, and + is \o.                                                 *)
(***************************************************************************)
EXTENDS Naturals, Sequences, FiniteSets

VARIABLES
  stack,      \* the construct tree: declared resources by type, and deps
  calls,      \* log of the helper calls of the program: inputs and returns
  phase,      \* "synth" | "deploy" | "failed"
  error,      \* the Error thrown during synth, or "none"
  applied,    \* ids of the resources the deployment has applied
  admins,     \* Lake Formation: the data lake administrators of the catalog
  admins0,    \* the administrators the catalog had before the deployment
  legacy,     \* Lake Formation: databases that still carry IAM_ALLOWED_PRINCIPALS
  registered, \* Lake Formation: the registered data lake locations
  failed      \* ids of the resources whose creation failed

vars == <<stack, calls, phase, error, applied, admins, admins0, legacy, registered, failed>>

\* ---------------------------------------------------------------- bounds

\* Helper calls (each with its own construct id) of one program.
MaxCalls == 2

\* ---------------------------------------------------------------- values

Undefined == "undefined"

Buckets == {"bucketA", "bucketB"}
Prefixes == {"bronze", "silver"}
Databases == {"db1", "db2"}

\* PermissionModel (utils), plus the absent optional argument.
PermissionModel == {"IAM", "HYBRID", "LAKE_FORMATION"}
AccessModes == PermissionModel \cup {Undefined}

Range(s) == {s[i] : i \in DOMAIN s}

\* The construct id of the n-th call of the program.
IdNames == <<"First", "Second", "Third", "Fourth", "Fifth">>
IdOf(n) == <<IdNames[n]>>

\* ---------------------------------------------------------------- stack

EmptyStack ==
  [roles |-> {}, policies |-> {}, locations |-> {}, settings |-> {},
   customResources |-> {}, permissions |-> {}, imports |-> {}, deps |-> {},
   grants |-> <<>>, trust |-> <<>>, buckets |-> {}, keys |-> {}]

\* Stack.of(scope): account, region and partition of the stack.
StackEnv == [account |-> "111111111111", region |-> "eu-west-1", partition |-> "aws"]

\* Role.roleArn of a role declared in the stack.
RoleArnOf(roleId) == <<"arn:aws:iam::", StackEnv.account, ":role/">> \o roleId

\* Bucket.arnForObjects(keyPattern)
arnForObjects(bucket, keyPattern) == <<"arn:aws:s3:::", bucket, "/", keyPattern>>

\* Every resource the stack declares (an imported role is no resource).
ResourceIds(stk) ==
  {r.id : r \in stk.roles} \cup {p.id : p \in stk.policies}
    \cup {l.id : l \in stk.locations} \cup {s.id : s \in stk.settings}
    \cup {c.id : c \in stk.customResources} \cup {p.id : p \in stk.permissions}
    \cup {b.id : b \in stk.buckets} \cup {k.id : k \in stk.keys}

\* ------------------------------------------------- registerS3Location

grantReadWrite_WholeBucket(bucket, roleId, objectsKeyPattern) ==
  [id |-> roleId \o <<"DefaultPolicy">>, grantee |-> roleId, bucket |-> bucket,
   keyPattern |-> "*", actions |-> "ReadWrite"]

\* Bucket.grantReadWrite(identity, objectsKeyPattern): a statement in the
\* default policy of the role, which is the dependable of the returned Grant.
grantReadWrite(bucket, roleId, objectsKeyPattern) ==
  [id |-> roleId \o <<"DefaultPolicy">>, grantee |-> roleId, bucket |-> bucket,
   keyPattern |-> objectsKeyPattern, actions |-> "ReadWrite"]

registerS3Location_NoDependency(stk, id, locationBucket, locationPrefix, accessMode) ==
  LET lfDataAccessRole == [id |-> id \o <<"DataAccessRole">>,
                           assumedBy |-> "lakeformation.amazonaws.com"]
      grantRead == grantReadWrite(locationBucket, lfDataAccessRole.id, locationPrefix)
      dataLakeLocation ==
        [id |-> id \o <<"DataLakeLocation">>,
         hybridAccessEnabled |-> IF accessMode = "HYBRID" THEN TRUE ELSE FALSE,
         useServiceLinkedRole |-> FALSE,
         roleArn |-> RoleArnOf(lfDataAccessRole.id),
         resourceArn |-> arnForObjects(locationBucket, locationPrefix)]
  IN [stack |-> [stk EXCEPT !.roles = @ \cup {lfDataAccessRole},
                            !.policies = @ \cup {grantRead},
                            !.locations = @ \cup {dataLakeLocation}],
      ret |-> [role |-> lfDataAccessRole.id, location |-> dataLakeLocation.id]]

registerS3Location_HybridUnlessIam(stk, id, locationBucket, locationPrefix, accessMode) ==
  LET lfDataAccessRole == [id |-> id \o <<"DataAccessRole">>,
                           assumedBy |-> "lakeformation.amazonaws.com"]
      grantRead == grantReadWrite(locationBucket, lfDataAccessRole.id, locationPrefix)
      dataLakeLocation ==
        [id |-> id \o <<"DataLakeLocation">>,
         hybridAccessEnabled |-> IF accessMode = "IAM" THEN FALSE ELSE TRUE,
         useServiceLinkedRole |-> FALSE,
         roleArn |-> RoleArnOf(lfDataAccessRole.id),
         resourceArn |-> arnForObjects(locationBucket, locationPrefix)]
  IN [stack |-> [stk EXCEPT !.roles = @ \cup {lfDataAccessRole},
                            !.policies = @ \cup {grantRead},
                            !.locations = @ \cup {dataLakeLocation},
                            !.deps = @ \cup {<<dataLakeLocation.id, grantRead.id>>}],
      ret |-> [role |-> lfDataAccessRole.id, location |-> dataLakeLocation.id]]

registerS3Location(stk, id, locationBucket, locationPrefix, accessMode) ==
  LET \* create the IAM role for LF data access
      lfDataAccessRole == [id |-> id \o <<"DataAccessRole">>,
                           assumedBy |-> "lakeformation.amazonaws.com"]
      grantRead == grantReadWrite(locationBucket, lfDataAccessRole.id, locationPrefix)
      dataLakeLocation ==
        [id |-> id \o <<"DataLakeLocation">>,
         hybridAccessEnabled |-> IF accessMode = "HYBRID" THEN TRUE ELSE FALSE,
         useServiceLinkedRole |-> FALSE,
         roleArn |-> RoleArnOf(lfDataAccessRole.id),
         resourceArn |-> arnForObjects(locationBucket, locationPrefix)]
  IN [stack |-> [stk EXCEPT !.roles = @ \cup {lfDataAccessRole},
                            !.policies = @ \cup {grantRead},
                            !.locations = @ \cup {dataLakeLocation},
                            \* dataLakeLocation.node.addDependency(grantRead)
                            !.deps = @ \cup {<<dataLakeLocation.id, grantRead.id>>}],
      ret |-> [role |-> lfDataAccessRole.id, location |-> dataLakeLocation.id]]

\* ---------------------------------------------------- grantLfAdminRole

\* A principal is an IRole (roleArn), an IUser (userArn) or a pair
\* [ISamlProvider, string]; a property the object does not have reads as
\* undefined, which is falsy like the empty string: <<>>.
NoString == <<>>

Principal(roleArn, userArn, samlProviderArn, samlName) ==
  [roleArn |-> roleArn, userArn |-> userArn,
   samlProviderArn |-> samlProviderArn, samlName |-> samlName]

RolePrincipal(arn) == Principal(arn, NoString, NoString, NoString)
UserPrincipal(arn) == Principal(NoString, arn, NoString, NoString)
SamlPrincipal(providerArn, name) == Principal(NoString, NoString, providerArn, name)

\* Check if the principal is an IAM Role or User and extract the arn.
principalArn(principal) ==
  IF principal.roleArn # NoString THEN principal.roleArn
  ELSE IF principal.userArn # NoString THEN principal.userArn
  ELSE principal.samlProviderArn \o principal.samlName

grantLfAdminRole_Replace(stk, id, principal) ==
  LET settings == [id |-> id,
                   admins |-> << principalArn(principal) >>,
                   mutationType |-> "REPLACE",
                   parameters |-> <<"CROSS_ACCOUNT_VERSION", 4>>]
  IN [stack |-> [stk EXCEPT !.settings = @ \cup {settings}], ret |-> id]

grantLfAdminRole_IdInIdentifier(stk, id, principal) ==
  LET settings == [id |-> id,
                   admins |-> << principalArn(principal) \o <<"/">> \o id >>,
                   mutationType |-> "APPEND",
                   parameters |-> <<"CROSS_ACCOUNT_VERSION", 4>>]
  IN [stack |-> [stk EXCEPT !.settings = @ \cup {settings}], ret |-> id]

\* grantLfAdminRole of the Lake Formation helpers.
grantLfAdminRole(stk, id, principal) ==
  LET settings == [id |-> id,
                   admins |-> << principalArn(principal) >>,
                   mutationType |-> "APPEND",
                   parameters |-> <<"CROSS_ACCOUNT_VERSION", 4>>]
  IN [stack |-> [stk EXCEPT !.settings = @ \cup {settings}], ret |-> id]

principalArn_utils_ProviderOnly(principal) ==
  IF principal.roleArn # NoString THEN principal.roleArn
  ELSE IF principal.userArn # NoString THEN principal.userArn
  ELSE principal.samlProviderArn

\* principalArn of the grantLfAdminRole defined beside makeCdkLfAdmin.
principalArn_utils(principal) ==
  IF principal.roleArn # NoString THEN principal.roleArn
  ELSE IF principal.userArn # NoString THEN principal.userArn
  ELSE principal.samlProviderArn \o principal.samlName

\* grantLfAdminRole defined beside makeCdkLfAdmin: no parameters property.
grantLfAdminRole_utils(stk, id, principal) ==
  LET settings == [id |-> id,
                   admins |-> << principalArn_utils(principal) >>,
                   mutationType |-> "APPEND",
                   parameters |-> <<>>]
  IN [stack |-> [stk EXCEPT !.settings = @ \cup {settings}], ret |-> id]

\* synthesizer.deployRoleArn of the stack: the CDK execution role.
CdkDeployRoleArn == <<"arn:aws:iam::", StackEnv.account, ":role/", "cdk-deploy-role">>

\* Role.fromRoleArn(scope, 'CdkRole', ...), then grantLfAdminRole of the same file.
makeCdkLfAdmin(stk, scope, id) ==
  LET cdkRole == RolePrincipal(CdkDeployRoleArn)
      imported == [stk EXCEPT !.imports = @ \cup {scope \o <<"CdkRole">>}]
  IN grantLfAdminRole_utils(imported, id, cdkRole)

\* ------------------------------------------- removeIamAllowedPrincipal

RemovalPolicies == {"RETAIN", "DESTROY"}

removeIamAllowedPrincipal(stk, id, database, execRole, removalPolicy) ==
  LET cr == [id |-> id,
             removalPolicy |-> removalPolicy,
             role |-> execRole,
             onCreate |-> [service |-> "LakeFormation",
                           action |-> "RevokePermissions",
                           Permissions |-> <<"ALL">>,
                           Principal |-> "IAM_ALLOWED_PRINCIPALS",
                           Database |-> database,
                           physicalResourceId |-> database],
             policy |-> {"lakeformation:RevokePermissions", "glue:GetDatabase"}]
  IN [stack |-> [stk EXCEPT !.customResources = @ \cup {cr}], ret |-> id]

\* ----------------------------------------------- grantDataLakeLocation

grantDataLakeLocation_WithGrantOption(stk, id, location, principal) ==
  LET perm == [id |-> id,
               permissions |-> <<"DATA_LOCATION_ACCESS">>,
               permissionsWithGrantOption |-> <<"DATA_LOCATION_ACCESS">>,
               dataLakePrincipalIdentifier |-> principal.roleArn,
               catalogId |-> StackEnv.account,
               s3Resource |-> location]
  IN [stack |-> [stk EXCEPT !.permissions = @ \cup {perm}], ret |-> id]

grantDataLakeLocation(stk, id, location, principal) ==
  LET perm == [id |-> id,
               permissions |-> <<"DATA_LOCATION_ACCESS">>,
               permissionsWithGrantOption |-> <<>>,
               dataLakePrincipalIdentifier |-> principal.roleArn,
               catalogId |-> StackEnv.account,
               s3Resource |-> location]
  IN [stack |-> [stk EXCEPT !.permissions = @ \cup {perm}], ret |-> id]

\* ------------------------------------ authorizerEnvironmentWorkflowSetup

ArnFormat_StackAccount(account, resource, service, resourceName) ==
  <<"arn:", StackEnv.partition, ":", service, ":", StackEnv.region, ":",
    StackEnv.account, ":", resource, "/">> \o resourceName

ArnFormat_NoFallback(account, resource, service, resourceName) ==
  <<"arn:", StackEnv.partition, ":", service, ":", StackEnv.region, ":",
    account, ":", resource, "/">> \o resourceName

\* Arn.format(components, stack): what the components leave out comes from
\* the stack.
ArnFormat(account, resource, service, resourceName) ==
  <<"arn:", StackEnv.partition, ":", service, ":", StackEnv.region, ":",
    IF account = Undefined THEN StackEnv.account ELSE account,
    ":", resource, "/">> \o resourceName

\* An IFunction: its construct path and its role (NoString when it has none).
Function(path, role) == [path |-> path, role |-> role]

\* IFunction.grantInvoke(grantee), Role.grantAssumeRole(grantee)
Grant(action, grantee, resource) ==
  [action |-> action, grantee |-> grantee, resource |-> resource]

authorizerEnvironmentWorkflowSetup_InvokeBeforeCheck(stk, scope, authorizerName, grantFunction, centralAccount) ==
  LET centralAuthorizerRole ==
        ArnFormat(centralAccount, "role", "iam", <<authorizerName, "Role">>)
      imported == [stk EXCEPT !.imports = @ \cup {scope \o <<"CentraRole">>}]
      lambdaInvokeGrant ==
        Grant("lambda:InvokeFunction", centralAuthorizerRole, grantFunction.path)
      assumeRoleGrant ==
        Grant("sts:AssumeRole", centralAuthorizerRole, grantFunction.role)
  IN IF grantFunction.role = NoString
     THEN [stack |-> [imported EXCEPT !.grants = Append(@, lambdaInvokeGrant)],
           ret |-> <<>>,
           error |-> "grantFunction.role is undefined"]
     ELSE [stack |-> [imported EXCEPT
                        !.grants = Append(Append(@, lambdaInvokeGrant), assumeRoleGrant)],
           ret |-> <<lambdaInvokeGrant, assumeRoleGrant>>,
           error |-> "none"]

authorizerEnvironmentWorkflowSetup(stk, scope, authorizerName, grantFunction, centralAccount) ==
  LET centralAuthorizerRole ==
        ArnFormat(centralAccount, "role", "iam", <<authorizerName, "Role">>)
      \* Role.fromRoleArn(scope, 'CentraRole', ...)
      imported == [stk EXCEPT !.imports = @ \cup {scope \o <<"CentraRole">>}]
      lambdaInvokeGrant ==
        Grant("lambda:InvokeFunction", centralAuthorizerRole, grantFunction.path)
      assumeRoleGrant ==
        Grant("sts:AssumeRole", centralAuthorizerRole, grantFunction.role)
  IN IF grantFunction.role = NoString
     THEN [stack |-> imported,
           ret |-> <<>>,
           error |-> "grantFunction.role is undefined"]
     ELSE [stack |-> [imported EXCEPT
                        !.grants = Append(Append(@, lambdaInvokeGrant), assumeRoleGrant)],
           ret |-> <<lambdaInvokeGrant, assumeRoleGrant>>,
           error |-> "none"]

\* DataZoneMskCentralAuthorizer.AUTHORIZER_NAME
AUTHORIZER_NAME == "DataZoneMskCentralAuthorizer.AUTHORIZER_NAME"

\* The constructor of DataZoneMskEnvironmentAuthorizer: the grant role, the
\* grant function running under it, and the workflow setup in its own scope.
DataZoneMskEnvironmentAuthorizer(stk, id, centralAccountId) ==
  LET grantRole == [id |-> id \o <<"GrantRole">>, assumedBy |-> "lambda.amazonaws.com"]
      grantFunction == Function(id \o <<"GrantFunction">>, RoleArnOf(grantRole.id))
      withRole == [stk EXCEPT !.roles = @ \cup {grantRole}]
  IN authorizerEnvironmentWorkflowSetup(withRole, id, AUTHORIZER_NAME,
                                        grantFunction, centralAccountId)

\* ------------------------------ DataZoneMskCentralAuthorizer.registerAccount

\* The trust entry of an environment account with the central authorizer.
TrustEntry(accountId) ==
  [account |-> accountId, principal |-> <<"arn:aws:iam::", accountId, ":root">>]

registerAccount_AlwaysAppend(stk, accountId) ==
  [stack |-> [stk EXCEPT !.trust = Append(@, TrustEntry(accountId))], ret |-> accountId]

\* Registration declares the trust of an account once: an account that is
\* registered already gets no second entry.
registerAccount(stk, accountId) ==
  IF \E k \in DOMAIN stk.trust : stk.trust[k].account = accountId
  THEN [stack |-> stk, ret |-> accountId]
  ELSE [stack |-> [stk EXCEPT !.trust = Append(@, TrustEntry(accountId))],
        ret |-> accountId]

\* ------------------------------------------------------ DataLakeStorage

\* An optional property: <<>> when it is not given, <<v>> when it is.
NotGiven == <<>>
Given(v) == <<v>>

\* props?.x || d : the default replaces what is falsy, a number that is 0 too.
OrDefault_Nullish(opt, d) == IF opt # NotGiven THEN opt[1] ELSE d

OrDefault(opt, d) == IF opt # NotGiven /\ opt[1] # 0 THEN opt[1] ELSE d

\* if (props?.x) : the property is given and is not 0.
Truthy(opt) == opt # NotGiven /\ opt[1] # 0

\* props?.name || d for a string property.
NameOrDefault(opt, d) == IF opt # NotGiven /\ opt[1] # "" THEN opt[1] ELSE d

Transition(storageClass, days) == [storageClass |-> storageClass, transitionAfter |-> days]

\* new AnalyticsBucket(this, id, {...})
AnalyticsBucket(id, key, name, transitions, removalPolicy, logs) ==
  [id |-> id, encryptionKey |-> key, bucketName |-> name,
   lifecycleRules |-> << [transitions |-> transitions] >>,
   removalPolicy |-> removalPolicy,
   serverAccessLogsBucket |-> logs,
   serverAccessLogsPrefix |-> <<name, "-bucket">>]

\* The constructor of DataLakeStorage: the access logs bucket, the key, and
\* the bronze, silver and gold buckets with their lifecycle transitions.
DataLakeStorage(stk, id, props) ==
  LET accessLogsBucket ==
        [id |-> id \o <<"AccessLogsBucket">>, encryptionKey |-> NoString,
         bucketName |-> "access-logs", lifecycleRules |-> <<>>,
         removalPolicy |-> "RETAIN", serverAccessLogsBucket |-> NoString,
         serverAccessLogsPrefix |-> NoString]
      removalPolicy ==
        IF props.removalPolicy # NotGiven THEN props.removalPolicy[1] ELSE "RETAIN"
      \* create the key if it's not provided in the parameters
      dataLakeKey == [id |-> id \o <<"DataKey">>, removalPolicy |-> removalPolicy,
                      enableKeyRotation |-> TRUE]
      bronzeTransitions ==
        << Transition("INFREQUENT_ACCESS",
                      OrDefault(props.bronzeBucketInfrequentAccessDelay, 90)),
           Transition("GLACIER", OrDefault(props.bronzeBucketArchiveDelay, 180)) >>
      silverTransitions ==
        << Transition("INFREQUENT_ACCESS",
                      OrDefault(props.silverBucketInfrequentAccessDelay, 180)) >>
          \o IF Truthy(props.silverBucketArchiveDelay)
             THEN << Transition("GLACIER", props.silverBucketArchiveDelay[1]) >>
             ELSE <<>>
      goldTransitions ==
        << Transition("INFREQUENT_ACCESS",
                      OrDefault(props.goldBucketInfrequentAccessDelay, 180)) >>
          \o IF Truthy(props.goldBucketArchiveDelay)
             THEN << Transition("GLACIER", props.goldBucketArchiveDelay[1]) >>
             ELSE <<>>
      bronzeBucket ==
        AnalyticsBucket(id \o <<"BronzeBucket">>, dataLakeKey.id,
                        NameOrDefault(props.bronzeBucketName, "bronze"),
                        bronzeTransitions, removalPolicy, accessLogsBucket.id)
      silverBucket ==
        AnalyticsBucket(id \o <<"SilverBucket">>, dataLakeKey.id,
                        NameOrDefault(props.silverBucketName, "silver"),
                        silverTransitions, removalPolicy, accessLogsBucket.id)
      goldBucket ==
        AnalyticsBucket(id \o <<"GoldBucket">>, dataLakeKey.id,
                        NameOrDefault(props.goldBucketName, "gold"),
                        goldTransitions, removalPolicy, accessLogsBucket.id)
  IN [stack |-> [stk EXCEPT
                   !.keys = @ \cup {dataLakeKey},
                   !.buckets = @ \cup {accessLogsBucket, bronzeBucket,
                                       silverBucket, goldBucket}],
      ret |-> [bronzeBucket |-> bronzeBucket.id, silverBucket |-> silverBucket.id,
               goldBucket |-> goldBucket.id, dataLakeKey |-> dataLakeKey.id,
               accessLogsBucket |-> accessLogsBucket.id]]

\* -------------------------------------------------- DataCatalogDatabase

\* The PermissionModel resolver: which steps a permission model asks for.
resolve_NoRevokeForLakeFormation(model) ==
  [registerHybrid |-> model = "HYBRID",
   requiresAdminGrant |-> model \in {"HYBRID", "LAKE_FORMATION"},
   requiresLegacyRevoke |-> model = "HYBRID"]

resolve(model) ==
  [registerHybrid |-> model = "HYBRID",
   requiresAdminGrant |-> model \in {"HYBRID", "LAKE_FORMATION"},
   requiresLegacyRevoke |-> model \in {"HYBRID", "LAKE_FORMATION"}]

DataCatalogDatabase_NoOrdering(stk, id, locationBucket, locationPrefix, name, permissionModel, removalPolicy) ==
  LET flags == resolve(permissionModel)
      located == registerS3Location(stk, id \o <<"Location">>, locationBucket,
                                    locationPrefix, permissionModel).stack
      adminId == id \o <<"CdkLfAdmin">>
      revokeId == id \o <<"IamRevoke">>
      granted == IF flags.requiresAdminGrant
                 THEN makeCdkLfAdmin(located, id, adminId).stack
                 ELSE located
      revoked == IF flags.requiresLegacyRevoke
                 THEN removeIamAllowedPrincipal(granted, revokeId, name,
                                                CdkDeployRoleArn, removalPolicy).stack
                 ELSE granted
  IN [stack |-> revoked, ret |-> id]

\* The database construct: the location is registered for every model; the
\* admin grant of the execution role and the legacy revoke running under that
\* role are declared as the resolver says, the revoke after the grant.
DataCatalogDatabase(stk, id, locationBucket, locationPrefix, name, permissionModel, removalPolicy) ==
  LET flags == resolve(permissionModel)
      located == registerS3Location(stk, id \o <<"Location">>, locationBucket,
                                    locationPrefix, permissionModel).stack
      adminId == id \o <<"CdkLfAdmin">>
      revokeId == id \o <<"IamRevoke">>
      granted == IF flags.requiresAdminGrant
                 THEN makeCdkLfAdmin(located, id, adminId).stack
                 ELSE located
      revoked == IF flags.requiresLegacyRevoke
                 THEN removeIamAllowedPrincipal(granted, revokeId, name,
                                                CdkDeployRoleArn, removalPolicy).stack
                 ELSE granted
      ordered == IF flags.requiresAdminGrant /\ flags.requiresLegacyRevoke
                 THEN [revoked EXCEPT !.deps = @ \cup {<<revokeId, adminId>>}]
                 ELSE revoked
  IN [stack |-> ordered, ret |-> id]

\* ---------------------------------------------------------------- deployment

\* What a resource depends on: the explicit edges, the role a policy is
\* attached to, and the roles of the stack whose roleArn its properties read.
DependsOn(stk, r) ==
  {e[2] : e \in {d \in stk.deps : d[1] = r}}
    \cup {p.grantee : p \in {q \in stk.policies : q.id = r}}
    \cup UNION {{b.encryptionKey, b.serverAccessLogsBucket} \ {NoString} :
                  b \in {x \in stk.buckets : x.id = r}}
    \cup {x.id : x \in {y \in stk.roles :
            \/ \E l \in stk.locations : l.id = r /\ l.roleArn = RoleArnOf(y.id)
            \/ \E c \in stk.customResources : c.id = r /\ c.role = RoleArnOf(y.id)
            \/ \E p \in stk.permissions :
                 p.id = r /\ p.dataLakePrincipalIdentifier = RoleArnOf(y.id)
            \/ \E s \in stk.settings : s.id = r /\ RoleArnOf(y.id) \in Range(s.admins)}}

\* AWS::LakeFormation::DataLakeSettings: APPEND adds the declared admins to
\* the catalog's, any other mutation type puts the declared ones in their place.
PutDataLakeSettings(current, declared) ==
  IF declared = {} THEN current
  ELSE IF \A s \in declared : s.mutationType = "APPEND"
       THEN current \cup UNION {Range(s.admins) : s \in declared}
       ELSE UNION {Range(s.admins) : s \in declared}

\* LakeFormation RevokePermissions answers InvalidInputException when the
\* principal holds no such permission on the database; the custom resource
\* ignores no error code, so its creation fails.
RevokeRejected(current, revokes) ==
  \E c \in revokes : c.onCreate.action = "RevokePermissions"
                       /\ c.onCreate.Database \notin current

\* ---------------------------------------------------------------- actions

InitWith(a) ==
  /\ stack = EmptyStack
  /\ calls = <<>>
  /\ phase = "synth"
  /\ error = "none"
  /\ applied = {}
  /\ admins = a
  /\ admins0 = a
  /\ legacy = Databases
  /\ registered = {}
  /\ failed = {}

Init == InitWith({})

\* A program calls registerS3Location(stack, id, bucket, prefix, accessMode?).
RegisterS3Location ==
  /\ phase = "synth"
  /\ Len(calls) < MaxCalls
  /\ \E b \in Buckets, p \in Prefixes, m \in AccessModes :
       LET id == IdOf(Len(calls) + 1)
           r == registerS3Location(stack, id, b, p, m)
       IN /\ stack' = r.stack
          /\ calls' = Append(calls, [fn |-> "registerS3Location", id |-> id,
                                     bucket |-> b, prefix |-> p, accessMode |-> m,
                                     ret |-> r.ret])
  /\ UNCHANGED <<phase, error, applied, admins, admins0, legacy, registered, failed>>

\* testStack.deploy(): synthesis is over, the template goes to the engine.
StartDeploy ==
  /\ phase = "synth"
  /\ error = "none"
  /\ phase' = "deploy"
  /\ UNCHANGED <<stack, calls, error, applied, admins, admins0, legacy, registered, failed>>

\* The engine applies one resource whose dependencies are all applied; a
\* resource whose creation fails stops the deployment.
Deploy ==
  /\ phase = "deploy"
  /\ \E r \in ResourceIds(stack) \ applied :
       /\ DependsOn(stack, r) \subseteq applied
       /\ LET revokes == {c \in stack.customResources : c.id = r}
          IN IF RevokeRejected(legacy, revokes)
             THEN /\ failed' = failed \cup {r}
                  /\ phase' = "failed"
                  /\ UNCHANGED <<applied, admins, legacy, registered>>
             ELSE /\ applied' = applied \cup {r}
                  /\ admins' = PutDataLakeSettings(admins, {s \in stack.settings : s.id = r})
                  /\ legacy' = legacy \ {c.onCreate.Database :
                                  c \in {x \in revokes : x.onCreate.action = "RevokePermissions"}}
                  /\ registered' = registered \cup
                       {[resourceArn |-> l.resourceArn, roleArn |-> l.roleArn,
                         hybridAccessEnabled |-> l.hybridAccessEnabled,
                         useServiceLinkedRole |-> l.useServiceLinkedRole]
                          : l \in {x \in stack.locations : x.id = r}}
                  /\ UNCHANGED <<phase, failed>>
  /\ UNCHANGED <<stack, calls, error, admins0>>

\* The principals a program grants the admin role to.  The provider ARN and
\* the mapped name are concatenated, so two pairs may spell one identifier.
SamlProviderArn == <<"arn:aws:iam::", "111111111111", ":saml-provider/", "idp">>
AdminPrincipals ==
  {RolePrincipal(<<"arn:aws:iam::", "111111111111", ":role/", "analyst">>),
   UserPrincipal(<<"arn:aws:iam::", "111111111111", ":user/", "alice">>),
   SamlPrincipal(SamlProviderArn, <<"alice">>),
   SamlPrincipal(SamlProviderArn, <<"bob">>)}

\* The administrators a catalog may have before the stack is deployed.
PreAdmins == {<<"arn:aws:iam::", "111111111111", ":role/", "owner">>,
              <<"arn:aws:iam::", "111111111111", ":role/", "analyst">>}

InitAdmin == \E a \in SUBSET PreAdmins : InitWith(a)

\* A program calls grantLfAdminRole of the Lake Formation helpers.
GrantLfAdminRole ==
  /\ phase = "synth"
  /\ Len(calls) < MaxCalls
  /\ \E pr \in AdminPrincipals :
       LET id == IdOf(Len(calls) + 1)
           r == grantLfAdminRole(stack, id, pr)
       IN /\ stack' = r.stack
          /\ calls' = Append(calls, [fn |-> "grantLfAdminRole", id |-> id,
                                     principal |-> pr, ret |-> r.ret])
  /\ UNCHANGED <<phase, error, applied, admins, admins0, legacy, registered, failed>>

\* A program calls the grantLfAdminRole defined beside makeCdkLfAdmin.
GrantLfAdminRoleUtils ==
  /\ phase = "synth"
  /\ Len(calls) < MaxCalls
  /\ \E pr \in AdminPrincipals :
       LET id == IdOf(Len(calls) + 1)
           r == grantLfAdminRole_utils(stack, id, pr)
       IN /\ stack' = r.stack
          /\ calls' = Append(calls, [fn |-> "grantLfAdminRole", id |-> id,
                                     principal |-> pr, ret |-> r.ret])
  /\ UNCHANGED <<phase, error, applied, admins, admins0, legacy, registered, failed>>

\* A program calls makeCdkLfAdmin(stack, id); a second call in the same scope
\* declares 'CdkRole' again, and the Construct constructor throws.
MakeCdkLfAdmin ==
  /\ phase = "synth"
  /\ Len(calls) < MaxCalls
  /\ LET id == IdOf(Len(calls) + 1)
         r == makeCdkLfAdmin(stack, <<>>, id)
     IN IF <<"CdkRole">> \in stack.imports
        THEN /\ error' = "There is already a Construct with name 'CdkRole'"
             /\ phase' = "failed"
             /\ UNCHANGED <<stack, calls>>
        ELSE /\ stack' = r.stack
             /\ calls' = Append(calls, [fn |-> "grantLfAdminRole", id |-> id,
                                        principal |-> RolePrincipal(CdkDeployRoleArn),
                                        ret |-> r.ret])
             /\ UNCHANGED <<phase, error>>
  /\ UNCHANGED <<applied, admins, admins0, legacy, registered, failed>>

\* The roles a custom resource may run under, and the roles granted access.
ExecRoles == {CdkDeployRoleArn, <<"arn:aws:iam::", "111111111111", ":role/", "revoker">>}

\* A program calls removeIamAllowedPrincipal(stack, id, database, execRole, removalPolicy).
RemoveIamAllowedPrincipal ==
  /\ phase = "synth"
  /\ Len(calls) < MaxCalls
  /\ \E db \in Databases, role \in ExecRoles, rp \in RemovalPolicies :
       LET id == IdOf(Len(calls) + 1)
           r == removeIamAllowedPrincipal(stack, id, db, role, rp)
       IN /\ stack' = r.stack
          /\ calls' = Append(calls, [fn |-> "removeIamAllowedPrincipal", id |-> id,
                                     database |-> db, execRole |-> role,
                                     removalPolicy |-> rp, ret |-> r.ret])
  /\ UNCHANGED <<phase, error, applied, admins, admins0, legacy, registered, failed>>

\* A program calls grantDataLakeLocation(stack, id, location, principal).
GrantDataLakeLocation ==
  /\ phase = "synth"
  /\ Len(calls) < MaxCalls
  /\ \E b \in Buckets, p \in Prefixes, role \in ExecRoles :
       LET id == IdOf(Len(calls) + 1)
           r == grantDataLakeLocation(stack, id, arnForObjects(b, p), RolePrincipal(role))
       IN /\ stack' = r.stack
          /\ calls' = Append(calls, [fn |-> "grantDataLakeLocation", id |-> id,
                                     location |-> arnForObjects(b, p),
                                     principal |-> RolePrincipal(role), ret |-> r.ret])
  /\ UNCHANGED <<phase, error, applied, admins, admins0, legacy, registered, failed>>

\* A program declares a DataCatalogDatabase; each database has its own name.
NewDataCatalogDatabase ==
  /\ phase = "synth"
  /\ Len(calls) < MaxCalls
  /\ \E b \in Buckets, p \in Prefixes, m \in PermissionModel, rp \in RemovalPolicies,
        n \in Databases \ {calls[i].name :
                               i \in {j \in DOMAIN calls : calls[j].fn = "DataCatalogDatabase"}} :
       LET id == IdOf(Len(calls) + 1)
           r == DataCatalogDatabase(stack, id, b, p, n, m, rp)
       IN /\ stack' = r.stack
          /\ calls' = Append(calls, [fn |-> "DataCatalogDatabase", id |-> id,
                                     bucket |-> b, prefix |-> p, name |-> n,
                                     permissionModel |-> m, removalPolicy |-> rp,
                                     ret |-> r.ret])
  /\ UNCHANGED <<phase, error, applied, admins, admins0, legacy, registered, failed>>

\* The central accounts, functions and scopes of the authorizer setups.
\* The central account a program passes: none, another account, or the
\* account of the stack itself (central and environment in one account).
CentralAccounts == {Undefined, "123456789012", "210987654321", StackEnv.account}
AuthorizerNames == {AUTHORIZER_NAME, "KinesisAuthorizer"}
Scopes == {<<"EnvA">>, <<"EnvB">>}
FunctionRoles == {NoString, <<"arn:aws:iam::", "111111111111", ":role/", "grant">>}

\* A program calls authorizerEnvironmentWorkflowSetup(scope, name, fn, account?);
\* a second call in one scope declares 'CentraRole' again and throws, as does
\* a function without a role.
AuthorizerEnvironmentWorkflowSetup ==
  /\ phase = "synth"
  /\ Len(calls) < MaxCalls
  /\ \E scope \in Scopes, name \in AuthorizerNames, role \in FunctionRoles,
        account \in CentralAccounts :
       LET fun == Function(scope \o <<"Function">>, role)
           r == authorizerEnvironmentWorkflowSetup(stack, scope, name, fun, account)
       IN IF scope \o <<"CentraRole">> \in stack.imports
          THEN /\ error' = "There is already a Construct with name 'CentraRole'"
               /\ phase' = "failed"
               /\ UNCHANGED <<stack, calls>>
          ELSE /\ stack' = r.stack
               /\ calls' = Append(calls, [fn |-> "authorizerEnvironmentWorkflowSetup",
                                          scope |-> scope, authorizerName |-> name,
                                          grantFunction |-> fun,
                                          centralAccount |-> account,
                                          ret |-> r.ret, error |-> r.error])
               /\ error' = r.error
               /\ phase' = IF r.error = "none" THEN phase ELSE "failed"
  /\ UNCHANGED <<applied, admins, admins0, legacy, registered, failed>>

\* A program declares a DataZoneMskEnvironmentAuthorizer(stack, id, props).
NewDataZoneMskEnvironmentAuthorizer ==
  /\ phase = "synth"
  /\ Len(calls) < MaxCalls
  /\ \E account \in CentralAccounts :
       LET id == IdOf(Len(calls) + 1)
           r == DataZoneMskEnvironmentAuthorizer(stack, id, account)
       IN /\ stack' = r.stack
          /\ calls' = Append(calls, [fn |-> "authorizerEnvironmentWorkflowSetup",
                                     scope |-> id, authorizerName |-> AUTHORIZER_NAME,
                                     grantFunction |->
                                       Function(id \o <<"GrantFunction">>,
                                                RoleArnOf(id \o <<"GrantRole">>)),
                                     centralAccount |-> account,
                                     ret |-> r.ret, error |-> r.error])
          /\ error' = r.error
          /\ phase' = IF r.error = "none" THEN phase ELSE "failed"
  /\ UNCHANGED <<applied, admins, admins0, legacy, registered, failed>>

\* The environment accounts a program registers with the central authorizer.
EnvironmentAccounts == {"123456789012", "210987654321", StackEnv.account}

\* A program calls mskCentralAuthorizer.registerAccount(accountId).
RegisterAccount ==
  /\ phase = "synth"
  /\ Len(calls) < MaxCalls
  /\ \E account \in EnvironmentAccounts :
       LET r == registerAccount(stack, account)
       IN /\ stack' = r.stack
          /\ calls' = Append(calls, [fn |-> "registerAccount", account |-> account,
                                     ret |-> r.ret])
  /\ UNCHANGED <<phase, error, applied, admins, admins0, legacy, registered, failed>>

\* The delays (in days) and the names a program gives to DataLakeStorage.
Delays == {NotGiven, Given(0), Given(30), Given(365)}
BucketNames == {NotGiven, Given("my-lake")}

\* A program declares a DataLakeStorage(stack, id, props).  The constructor
\* reads nothing of the stack, so one instance shows all it does.
NewDataLakeStorage ==
  /\ phase = "synth"
  /\ calls = <<>>
  /\ \E bia \in Delays, ba \in Delays, sia \in Delays, sa \in Delays,
        gia \in Delays, ga \in Delays, name \in BucketNames :
       LET id == IdOf(1)
           props == [bronzeBucketName |-> name,
                     silverBucketName |-> NotGiven,
                     goldBucketName |-> NotGiven,
                     bronzeBucketInfrequentAccessDelay |-> bia,
                     bronzeBucketArchiveDelay |-> ba,
                     silverBucketInfrequentAccessDelay |-> sia,
                     silverBucketArchiveDelay |-> sa,
                     goldBucketInfrequentAccessDelay |-> gia,
                     goldBucketArchiveDelay |-> ga,
                     removalPolicy |-> NotGiven]
           r == DataLakeStorage(stack, id, props)
       IN /\ stack' = r.stack
          /\ calls' = Append(calls, [fn |-> "DataLakeStorage", id |-> id,
                                     props |-> props, ret |-> r.ret])
  /\ UNCHANGED <<phase, error, applied, admins, admins0, legacy, registered, failed>>

NextLocation == RegisterS3Location \/ StartDeploy \/ Deploy
SpecLocation == Init /\ [][NextLocation]_vars

NextAdmin == GrantLfAdminRole \/ GrantLfAdminRoleUtils \/ MakeCdkLfAdmin \/ StartDeploy \/ Deploy
SpecAdmin == InitAdmin /\ [][NextAdmin]_vars

NextRevoke == RemoveIamAllowedPrincipal \/ StartDeploy \/ Deploy
SpecRevoke == Init /\ [][NextRevoke]_vars

NextGrant == GrantDataLakeLocation \/ StartDeploy \/ Deploy
SpecGrant == Init /\ [][NextGrant]_vars

NextDatabase == NewDataCatalogDatabase \/ StartDeploy \/ Deploy
SpecDatabase == Init /\ [][NextDatabase]_vars

NextAuthorizer ==
  AuthorizerEnvironmentWorkflowSetup \/ NewDataZoneMskEnvironmentAuthorizer
    \/ StartDeploy \/ Deploy
SpecAuthorizer == Init /\ [][NextAuthorizer]_vars

NextCentral ==
  RegisterAccount \/ NewDataZoneMskEnvironmentAuthorizer \/ StartDeploy \/ Deploy
SpecCentral == Init /\ [][NextCentral]_vars

NextStorage == NewDataLakeStorage \/ StartDeploy \/ Deploy
SpecStorage == Init /\ [][NextStorage]_vars

Next ==
  \/ RegisterAccount \/ NewDataLakeStorage
  \/ RegisterS3Location \/ GrantLfAdminRole \/ GrantLfAdminRoleUtils \/ MakeCdkLfAdmin
  \/ RemoveIamAllowedPrincipal \/ GrantDataLakeLocation \/ NewDataCatalogDatabase
  \/ AuthorizerEnvironmentWorkflowSetup \/ NewDataZoneMskEnvironmentAuthorizer
  \/ StartDeploy \/ Deploy
Spec == InitAdmin /\ [][Next]_vars

\* ---------------------------------------------------------------- claims

CallsOf(fn) == {i \in DOMAIN calls : calls[i].fn = fn}

StartsWith(id, prefix) ==
  Len(id) >= Len(prefix) /\ SubSeq(id, 1, Len(prefix)) = prefix

\* The bucket read-write grants of the access role of location l.
GrantsOf(l) ==
  {p \in stack.policies : /\ RoleArnOf(p.grantee) = l.roleArn
                          /\ arnForObjects(p.bucket, p.keyPattern) = l.resourceArn
                          /\ p.actions = "ReadWrite"}

C1_EdgeDeclared ==
  \A l \in stack.locations :
    /\ GrantsOf(l) # {}
    /\ \A g \in GrantsOf(l) : <<l.id, g.id>> \in stack.deps

\* C1: every location registerS3Location declares has a dependency edge to the
\* bucket read-write grant of its access role, and the deployment applies a
\* location only when that grant is already applied.
C1_RegistrationAfterGrant ==
  /\ []C1_EdgeDeclared
  /\ [][\A l \in stack.locations :
          (l.id \in applied' /\ l.id \notin applied)
            => \A g \in GrantsOf(l) : g.id \in applied]_vars

C1_Witness ==
  \E l \in stack.locations : l.id \in applied /\ Cardinality(stack.locations) = 2

\* C3: the location of a registerS3Location call is hybrid-access-enabled
\* exactly when the access mode is HYBRID, never uses the service-linked role,
\* and carries the ARN of the access role the call created and returned.
C3_HybridOnlyForHybrid ==
  \A i \in CallsOf("registerS3Location") :
    /\ \E r \in stack.roles : r.id = calls[i].ret.role
    /\ \E l \in stack.locations : l.id = calls[i].ret.location
    /\ \A l \in stack.locations :
         l.id = calls[i].ret.location =>
           /\ l.hybridAccessEnabled = (calls[i].accessMode = "HYBRID")
           /\ l.useServiceLinkedRole = FALSE
           /\ l.roleArn = RoleArnOf(calls[i].ret.role)
           /\ l.id \in applied =>
                \E g \in registered : /\ g.resourceArn = l.resourceArn
                                      /\ g.roleArn = l.roleArn
                                      /\ g.useServiceLinkedRole = FALSE
                                      /\ g.hybridAccessEnabled
                                           = (calls[i].accessMode = "HYBRID")

C3_Witness ==
  \E i, j \in CallsOf("registerS3Location") :
    /\ calls[i].accessMode = "HYBRID"
    /\ calls[j].accessMode \in {"LAKE_FORMATION", Undefined}
    /\ calls[i].ret.location \in applied
    /\ calls[j].ret.location \in applied

\* The admin grant and the legacy revoke a database construct declares.
AdminGrantsOf(c) ==
  {s \in stack.settings : StartsWith(s.id, c.id) /\ CdkDeployRoleArn \in Range(s.admins)}

LegacyRevokesOf(c) ==
  {r \in stack.customResources :
     /\ StartsWith(r.id, c.id)
     /\ r.onCreate.action = "RevokePermissions"
     /\ r.onCreate.Principal = "IAM_ALLOWED_PRINCIPALS"
     /\ r.onCreate.Database = c.name}

\* C2: a database registered with IAM declares neither an admin grant nor a
\* legacy revoke; with HYBRID or LAKE_FORMATION it declares one of each.
C2_DecisionTable ==
  \A i \in CallsOf("DataCatalogDatabase") :
    LET c == calls[i]
    IN /\ c.permissionModel = "IAM" =>
            AdminGrantsOf(c) = {} /\ LegacyRevokesOf(c) = {}
       /\ c.permissionModel \in {"HYBRID", "LAKE_FORMATION"} =>
            Cardinality(AdminGrantsOf(c)) = 1 /\ Cardinality(LegacyRevokesOf(c)) = 1

C2_Witness ==
  \E i, j \in CallsOf("DataCatalogDatabase") :
    /\ calls[i].permissionModel = "IAM"
    /\ calls[j].permissionModel = "LAKE_FORMATION"

ExpectedIdentifier(pr) ==
  CASE pr.roleArn # NoString -> pr.roleArn
    [] pr.roleArn = NoString /\ pr.userArn # NoString -> pr.userArn
    [] OTHER -> pr.samlProviderArn \o pr.samlName

AllSettingsApplied ==
  phase = "deploy" /\ {s.id : s \in stack.settings} \subseteq applied

\* C5: when every admin grant of the program names the same principal and the
\* catalog had no admin, the admin set after one grant is applied, and still
\* after the second, is the single identifier of that principal.
C5_TwiceIsOnce ==
  \A pr \in AdminPrincipals \cup {RolePrincipal(CdkDeployRoleArn)} :
    ( /\ admins0 = {}
      /\ \A i \in DOMAIN calls : calls[i].principal = pr
      /\ \E s \in stack.settings : s.id \in applied )
    => /\ admins = {ExpectedIdentifier(pr)}
       /\ Cardinality(admins) = 1

C5_Witness ==
  /\ admins0 = {}
  /\ Len(calls) >= 2
  /\ \A i \in DOMAIN calls : calls[i].principal = calls[1].principal
  /\ Cardinality(stack.settings) >= 2
  /\ AllSettingsApplied

\* C6: every admin grant is declared with mutation type APPEND, no step of the
\* deployment removes an admin, and once all grants are applied the admin set
\* is the admins from before plus every granted principal, whatever the order.
C6_AppendOnly ==
  /\ [](\A s \in stack.settings : s.mutationType = "APPEND")
  /\ [][admins \subseteq admins']_vars
  /\ [](AllSettingsApplied =>
          admins = admins0 \cup {ExpectedIdentifier(calls[i].principal) :
                                   i \in CallsOf("grantLfAdminRole")})

C6_Witness ==
  /\ admins0 # {}
  /\ AllSettingsApplied
  /\ Cardinality(stack.settings) >= 2
  /\ Cardinality(admins) >= Cardinality(admins0) + 2

\* C7: two legacy revokes declared on the same database both succeed, and the
\* database ends without its legacy record.
C7_RevokeTwiceSucceeds ==
  \A i, j \in CallsOf("removeIamAllowedPrincipal") :
    (i # j /\ calls[i].database = calls[j].database)
      => /\ phase # "failed"
         /\ calls[i].ret \notin failed /\ calls[j].ret \notin failed
         /\ (calls[i].ret \in applied \/ calls[j].ret \in applied)
              => calls[i].database \notin legacy

\* C8: the permission a grantDataLakeLocation call declares is exactly
\* DATA_LOCATION_ACCESS, without grant option, for the one role and the one
\* location of the call.
C8_LocationAccessOnly ==
  \A i \in CallsOf("grantDataLakeLocation") :
    /\ Cardinality({p \in stack.permissions : p.id = calls[i].ret}) = 1
    /\ \A p \in stack.permissions :
         p.id = calls[i].ret =>
           /\ p.permissions = <<"DATA_LOCATION_ACCESS">>
           /\ p.permissionsWithGrantOption = <<>>
           /\ p.dataLakePrincipalIdentifier = calls[i].principal.roleArn
           /\ p.s3Resource = calls[i].location

C8_Witness ==
  \E i \in CallsOf("grantDataLakeLocation") : calls[i].ret \in applied

\* The role {AuthorizerName}Role of an account, as the setup spells its ARN.
CentralRoleArn(account, authorizerName) ==
  <<"arn:", "aws", ":", "iam", ":", "eu-west-1", ":", account, ":", "role", "/",
    authorizerName, "Role">>

Succeeded == {i \in CallsOf("authorizerEnvironmentWorkflowSetup") : calls[i].error = "none"}

GrantCount(action, resource) ==
  Cardinality({k \in DOMAIN stack.grants :
                 stack.grants[k].action = action /\ stack.grants[k].resource = resource})

\* C9: a setup that succeeds for a given central account returns one invoke
\* grant on the function and one assume-role grant on its role, both to the
\* role {AuthorizerName}Role of that account, and issues no other grant.
C9_OnePairSameGrantee ==
  /\ Len(stack.grants) = 2 * Cardinality(Succeeded)
  /\ \A i \in Succeeded :
       calls[i].centralAccount # Undefined =>
         LET c == calls[i]
             central == CentralRoleArn(c.centralAccount, c.authorizerName)
         IN /\ Len(c.ret) = 2
            /\ c.ret[1] = Grant("lambda:InvokeFunction", central, c.grantFunction.path)
            /\ c.ret[2] = Grant("sts:AssumeRole", central, c.grantFunction.role)
            /\ c.ret[1] \in Range(stack.grants) /\ c.ret[2] \in Range(stack.grants)
            /\ GrantCount("lambda:InvokeFunction", c.grantFunction.path) = 1

C9_Witness ==
  \E i \in Succeeded : calls[i].centralAccount = "123456789012"

\* C10: a setup for a function without a role throws and has issued no grant;
\* after any setup, the invoke grant on the function is there exactly when
\* the assume-role grant on its role to the same grantee is.
C10_FailFastPaired ==
  \A i \in CallsOf("authorizerEnvironmentWorkflowSetup") :
    LET c == calls[i]
        invoke == {k \in DOMAIN stack.grants :
                     /\ stack.grants[k].action = "lambda:InvokeFunction"
                     /\ stack.grants[k].resource = c.grantFunction.path}
    IN /\ c.grantFunction.role = NoString =>
            /\ c.error = "grantFunction.role is undefined"
            /\ error = c.error /\ phase = "failed"
            /\ invoke = {} /\ c.ret = <<>>
            /\ Len(stack.grants) = 2 * Cardinality(Succeeded)
       /\ c.grantFunction.role # NoString => c.error = "none"
       /\ invoke # {} <=>
            \E k \in invoke, m \in DOMAIN stack.grants :
              /\ stack.grants[m].action = "sts:AssumeRole"
              /\ stack.grants[m].resource = c.grantFunction.role
              /\ stack.grants[m].grantee = stack.grants[k].grantee
       /\ c.error = "none" <=> invoke # {}

C10_Witness ==
  \E i \in CallsOf("authorizerEnvironmentWorkflowSetup") :
    /\ calls[i].grantFunction.role = NoString
    /\ phase = "failed"
    /\ Succeeded # {}

\* The accounts with a trust entry, and the entries of one account.
TrustedAccounts(stk) == {stk.trust[k].account : k \in DOMAIN stk.trust}
TrustEntriesOf(stk, account) == {k \in DOMAIN stk.trust : stk.trust[k].account = account}

C11_NoDuplicate ==
  /\ \A a \in TrustedAccounts(stack) : Cardinality(TrustEntriesOf(stack, a)) = 1
  /\ \A i \in CallsOf("registerAccount") :
       Cardinality(TrustEntriesOf(stack, calls[i].account)) = 1

\* C11: an account has one trust entry however often it is registered, and
\* registering an account that is registered already leaves the trust
\* entries as they were.
C11_RegisterIdempotent ==
  /\ []C11_NoDuplicate
  /\ [][( /\ Len(calls') = Len(calls) + 1
          /\ calls'[Len(calls')].fn = "registerAccount"
          /\ calls'[Len(calls')].account \in TrustedAccounts(stack) )
        => stack'.trust = stack.trust]_vars

C11_Witness ==
  \E i, j \in CallsOf("registerAccount") :
    i # j /\ calls[i].account = calls[j].account /\ Len(stack.trust) = 1

\* The lifecycle transitions of a bucket of the stack.
TransitionsOf(bucketId) ==
  UNION {Range(b.lifecycleRules[1].transitions) : b \in {x \in stack.buckets : x.id = bucketId}}

DaysOf(bucketId, storageClass) ==
  {t.transitionAfter : t \in {x \in TransitionsOf(bucketId) : x.storageClass = storageClass}}

DelayProps ==
  {"bronzeBucketInfrequentAccessDelay", "bronzeBucketArchiveDelay",
   "silverBucketInfrequentAccessDelay", "silverBucketArchiveDelay",
   "goldBucketInfrequentAccessDelay", "goldBucketArchiveDelay"}

\* C12: a DataLakeStorage created without delay properties moves bronze data
\* to Infrequent Access after 30 days and to Glacier after 90 days, silver and
\* gold data to Infrequent Access after 90 days and never to Glacier.
C12_DocumentedDefaults ==
  \A i \in CallsOf("DataLakeStorage") :
    (\A d \in DelayProps : calls[i].props[d] = NotGiven)
      => /\ DaysOf(calls[i].ret.bronzeBucket, "INFREQUENT_ACCESS") = {30}
         /\ DaysOf(calls[i].ret.bronzeBucket, "GLACIER") = {90}
         /\ DaysOf(calls[i].ret.silverBucket, "INFREQUENT_ACCESS") = {90}
         /\ DaysOf(calls[i].ret.silverBucket, "GLACIER") = {}
         /\ DaysOf(calls[i].ret.goldBucket, "INFREQUENT_ACCESS") = {90}
         /\ DaysOf(calls[i].ret.goldBucket, "GLACIER") = {}

\* The properties with every delay of 0 taken away.
WithoutZeroDelays(props) ==
  [f \in DOMAIN props |->
     IF f \in DelayProps /\ props[f] = Given(0) THEN NotGiven ELSE props[f]]

\* The days a delay property asks of its transition, when it is given and not 0.
AsksExactly(props, f, days) == Truthy(props[f]) => days = {props[f][1]}

\* C16: the buckets of a DataLakeStorage are those of the same properties
\* without the delays that are 0; a delay that is given and not 0 is the delay
\* of its transition; silver and gold have a Glacier transition exactly when
\* their archive delay is given and not 0, bronze and every Infrequent Access
\* transition always.
C16_ZeroIsNotGiven ==
  \A i \in CallsOf("DataLakeStorage") :
    LET c == calls[i]
        bare == DataLakeStorage(EmptyStack, c.id, WithoutZeroDelays(c.props)).stack
    IN /\ stack.buckets = bare.buckets
       /\ \A b \in {c.ret.bronzeBucket, c.ret.silverBucket, c.ret.goldBucket} :
            /\ Cardinality(DaysOf(b, "INFREQUENT_ACCESS")) = 1
            /\ 0 \notin DaysOf(b, "INFREQUENT_ACCESS") \cup DaysOf(b, "GLACIER")
       /\ Cardinality(DaysOf(c.ret.bronzeBucket, "GLACIER")) = 1
       /\ AsksExactly(c.props, "bronzeBucketInfrequentAccessDelay",
                      DaysOf(c.ret.bronzeBucket, "INFREQUENT_ACCESS"))
       /\ AsksExactly(c.props, "bronzeBucketArchiveDelay",
                      DaysOf(c.ret.bronzeBucket, "GLACIER"))
       /\ AsksExactly(c.props, "silverBucketInfrequentAccessDelay",
                      DaysOf(c.ret.silverBucket, "INFREQUENT_ACCESS"))
       /\ AsksExactly(c.props, "silverBucketArchiveDelay",
                      DaysOf(c.ret.silverBucket, "GLACIER"))
       /\ AsksExactly(c.props, "goldBucketInfrequentAccessDelay",
                      DaysOf(c.ret.goldBucket, "INFREQUENT_ACCESS"))
       /\ AsksExactly(c.props, "goldBucketArchiveDelay",
                      DaysOf(c.ret.goldBucket, "GLACIER"))
       /\ DaysOf(c.ret.silverBucket, "GLACIER") # {}
            <=> Truthy(c.props.silverBucketArchiveDelay)
       /\ DaysOf(c.ret.goldBucket, "GLACIER") # {}
            <=> Truthy(c.props.goldBucketArchiveDelay)

C16_Witness ==
  \E i \in CallsOf("DataLakeStorage") :
    /\ calls[i].props.bronzeBucketInfrequentAccessDelay = Given(0)
    /\ calls[i].props.bronzeBucketArchiveDelay = Given(365)
    /\ calls[i].props.silverBucketArchiveDelay = Given(0)
    /\ calls[i].props.goldBucketArchiveDelay = Given(30)
    /\ calls[i].ret.goldBucket \in applied

\* The constructs a call declared: those whose id is under the call's id.
DeclaredBy(constructs, i) == {x \in constructs : StartsWith(x.id, calls[i].id)}

\* C13: each registerS3Location call declares exactly one role, assumed by the
\* Lake Formation service only and granted read-write on exactly the bucket
\* and prefix of the call; the role returned is the role of the location the
\* call declared, whose resource is that bucket and prefix; no two calls share
\* a role.
C13_OneDedicatedRole ==
  /\ Cardinality(stack.roles) = Cardinality(CallsOf("registerS3Location"))
  /\ \A i \in CallsOf("registerS3Location") :
       LET c == calls[i]
       IN /\ DeclaredBy(stack.roles, i)
               = {[id |-> c.ret.role, assumedBy |-> "lakeformation.amazonaws.com"]}
          /\ {[bucket |-> p.bucket, keyPattern |-> p.keyPattern, actions |-> p.actions] :
                p \in {x \in stack.policies : x.grantee = c.ret.role}}
               = {[bucket |-> c.bucket, keyPattern |-> c.prefix, actions |-> "ReadWrite"]}
          /\ Cardinality({x \in stack.policies : x.grantee = c.ret.role}) = 1
          /\ {[id |-> l.id, roleArn |-> l.roleArn, resourceArn |-> l.resourceArn] :
                l \in DeclaredBy(stack.locations, i)}
               = {[id |-> c.ret.location, roleArn |-> RoleArnOf(c.ret.role),
                   resourceArn |-> arnForObjects(c.bucket, c.prefix)]}
          /\ \A j \in CallsOf("registerS3Location") :
               j # i => calls[j].ret.role # c.ret.role
          /\ c.ret.location \in applied =>
               \E g \in registered : /\ g.roleArn = RoleArnOf(c.ret.role)
                                     /\ g.resourceArn = arnForObjects(c.bucket, c.prefix)

C13_Witness ==
  \E i, j \in CallsOf("registerS3Location") :
    /\ i # j
    /\ calls[i].bucket = calls[j].bucket
    /\ calls[i].prefix # calls[j].prefix
    /\ calls[i].ret.role \in applied
    /\ calls[j].ret.location \in applied

\* The admin entries a definition of grantLfAdminRole declares for a principal.
AdminsDeclared(r) == {st.admins : st \in r.stack.settings}

\* C14: the data lake settings of every grantLfAdminRole call carry exactly
\* one admin, the role ARN of a role, the user ARN of a user, the provider ARN
\* followed by the mapped name of a provider and name pair; and both
\* definitions of grantLfAdminRole declare that same admin for the principal.
C14_OneCanonicalIdentifier ==
  \A i \in CallsOf("grantLfAdminRole") :
    LET pr == calls[i].principal
        declared == {st \in stack.settings : st.id = calls[i].ret}
    IN /\ Cardinality(declared) = 1
       /\ \A st \in declared :
            /\ Len(st.admins) = 1
            /\ pr.roleArn # NoString => st.admins[1] = pr.roleArn
            /\ (pr.roleArn = NoString /\ pr.userArn # NoString)
                 => st.admins[1] = pr.userArn
            /\ (pr.roleArn = NoString /\ pr.userArn = NoString)
                 => st.admins[1] = pr.samlProviderArn \o pr.samlName
            /\ AdminsDeclared(grantLfAdminRole(EmptyStack, calls[i].id, pr)) = {st.admins}
            /\ AdminsDeclared(grantLfAdminRole_utils(EmptyStack, calls[i].id, pr)) = {st.admins}
            /\ st.id \in applied => st.admins[1] \in admins

C14_Witness ==
  \E i, j \in CallsOf("grantLfAdminRole") :
    /\ calls[i].principal.samlProviderArn # NoString
    /\ calls[j].principal.userArn # NoString
    /\ \E st \in stack.settings : st.id = calls[i].ret /\ st.parameters = <<>>
    /\ calls[i].ret \in applied
    /\ calls[j].ret \in applied

\* The grantees of the grants a setup returned.
GranteesOf(i) == {calls[i].ret[k].grantee : k \in DOMAIN calls[i].ret}

\* The role {AuthorizerName}Role of the account of the stack owning the scope.
EnvironmentRoleArn(authorizerName) == CentralRoleArn(StackEnv.account, authorizerName)

\* C15, as stated: without a central account both grants of a setup go to
\* the role {AuthorizerName}Role of the stack's own account; with a central
\* account given, both go to that account's role and never to the role of
\* the stack's own account.
C15_NeverEnvironmentRole ==
  \A i \in Succeeded :
    LET c == calls[i]
    IN /\ Len(c.ret) = 2
       /\ c.centralAccount = Undefined =>
            GranteesOf(i) = {EnvironmentRoleArn(c.authorizerName)}
       /\ c.centralAccount # Undefined =>
            /\ GranteesOf(i) = {CentralRoleArn(c.centralAccount, c.authorizerName)}
            /\ EnvironmentRoleArn(c.authorizerName) \notin GranteesOf(i)

\* C15, amended: without a central account both grants of a setup go to the
\* role {AuthorizerName}Role of the stack's own account; with a central
\* account given, both go to that account's role, which is the role of the
\* stack's own account exactly when the account given is the stack's own.
C15_CentralOrOwnAccount ==
  \A i \in Succeeded :
    LET c == calls[i]
    IN /\ Len(c.ret) = 2
       /\ c.ret[1].action = "lambda:InvokeFunction"
       /\ c.ret[2].action = "sts:AssumeRole"
       /\ c.centralAccount = Undefined =>
            GranteesOf(i) = {EnvironmentRoleArn(c.authorizerName)}
       /\ c.centralAccount # Undefined =>
            /\ GranteesOf(i) = {CentralRoleArn(c.centralAccount, c.authorizerName)}
            /\ EnvironmentRoleArn(c.authorizerName) \in GranteesOf(i)
                 <=> c.centralAccount = StackEnv.account

C15_Witness ==
  \E i, j \in Succeeded :
    /\ calls[i].centralAccount = Undefined
    /\ calls[j].centralAccount = StackEnv.account
    /\ GranteesOf(i) = GranteesOf(j)
    /\ phase = "deploy"

====
